---- MODULE Spec2Model ----
(***************************************************************************)
(* A model of the order-flow-imbalance / cross-impact pipeline of          *)
(* src/scripts: calculate_order_flows, aggregate_order_book_data,          *)
(* calculate_log_returns, integrate_ofi_with_pca, preprocess_data and      *)
(* contemporaneous_cross_impact.                                           *)
(*                                                                         *)
(* A table (pandas DataFrame) is a record                                  *)
(*     [cols |-> set of column names, rows |-> sequence of rows,           *)
(*      ts_dtype |-> "int" or "datetime"]                                  *)
(* and a row is a function from the table's column names to cell values.   *)
(* A column name is a tuple: <<"symbol">>, <<"ts_event">>, and for the     *)
(* formatted names f"bid_px_{level:02d}" the pair <<"bid_px", level>>,     *)
(* f"of_{level}_b" the pair <<"of_b", level>>.                             *)
(*                                                                         *)
(* A numeric cell (float64) is an extended rational <<n, d>>: d > 0 and    *)
(* gcd(n, d) = 1 for a finite number, <<0,0>> for NaN, <<1,0>> for +inf    *)
(* and <<-1,0>> for -inf.                                                  *)
(***************************************************************************)
EXTENDS Integers, Sequences, FiniteSets, TLC

VARIABLES
    order_book_data,    \* the ladder table the caller holds (callee may mutate it in place)
    merged_data,        \* the joined OFI + returns table the caller holds
    given,              \* the argument of the last call as it was when the call began
    result,             \* what the last call returned (NoResult when it raised)
    status,             \* "idle", "running", "returned" or "raised"
    called,             \* the sequence of functions called so far
    ofi_matrix,         \* contemporaneous_cross_impact: pivot of ofi_pca
    returns_matrix,     \* contemporaneous_cross_impact: pivot of log_return
    cross_impact_coef,  \* contemporaneous_cross_impact: the coefficient frame being filled
    pending,            \* contemporaneous_cross_impact: target columns still to fit
    fits                \* contemporaneous_cross_impact: targets fitted so far, in order

vars == <<order_book_data, merged_data, given, result, status, called,
          ofi_matrix, returns_matrix, cross_impact_coef, pending, fits>>

-----------------------------------------------------------------------------
(* float64 arithmetic on extended rationals *)

NaN == <<0, 0>>

PosInf == <<1, 0>>

NegInf == <<-1, 0>>

Num(k) == <<k, 1>>

Abs(k) == IF k < 0 THEN -k ELSE k

Sign(k) == IF k < 0 THEN -1 ELSE IF k = 0 THEN 0 ELSE 1

RECURSIVE Gcd(_, _)
Gcd(a, b) == IF b = 0 THEN a ELSE Gcd(b, a % b)

\* the float n/d: division by zero gives an infinity of n's sign, 0/0 gives NaN
Ratio(n, d) ==
    IF d = 0 THEN <<Sign(n), 0>>
    ELSE LET g == Gcd(Abs(n), Abs(d))
         IN  <<(Sign(d) * n) \div g, Abs(d) \div g>>

IsNaN(x) == x = NaN

IsInf(x) == x = PosInf \/ x = NegInf

IsFinite(x) == x[2] > 0

Neg(x) == <<-x[1], x[2]>>

FAdd(x, y) ==
    IF IsNaN(x) \/ IsNaN(y) THEN NaN
    ELSE IF IsInf(x) /\ IsInf(y) THEN (IF x = y THEN x ELSE NaN)
    ELSE IF IsInf(x) THEN x
    ELSE IF IsInf(y) THEN y
    ELSE Ratio(x[1] * y[2] + y[1] * x[2], x[2] * y[2])

FSub(x, y) == FAdd(x, Neg(y))

\* x / y for floats (numpy: x/0 is +-inf, 0/0 and inf/inf are NaN)
FDiv(x, y) ==
    IF IsNaN(x) \/ IsNaN(y) THEN NaN
    ELSE IF IsInf(x) /\ IsInf(y) THEN NaN
    ELSE IF IsInf(x) THEN <<x[1] * (IF y[1] < 0 THEN -1 ELSE 1), 0>>
    ELSE IF IsInf(y) THEN Num(0)
    ELSE Ratio(x[1] * y[2], x[2] * y[1])

\* comparisons: every comparison with NaN is False
FGt(x, y) ==
    /\ ~IsNaN(x)
    /\ ~IsNaN(y)
    /\ IF IsInf(x) \/ IsInf(y)
       THEN (x = PosInf /\ y # PosInf) \/ (y = NegInf /\ x # NegInf)
       ELSE x[1] * y[2] > y[1] * x[2]

FEq(x, y) == ~IsNaN(x) /\ ~IsNaN(y) /\ x = y

FLt(x, y) == FGt(y, x)

-----------------------------------------------------------------------------
(* column names *)

SymbolCol == <<"symbol">>

TsCol == <<"ts_event">>

BidPx(level) == <<"bid_px", level>>

AskPx(level) == <<"ask_px", level>>

BidSz(level) == <<"bid_sz", level>>

AskSz(level) == <<"ask_sz", level>>

OfB(level) == <<"of_b", level>>

OfA(level) == <<"of_a", level>>

ActionCol == <<"action">>

SideCol == <<"side">>

PriceCol == <<"price">>

MidPriceCol == <<"mid_price">>

LogReturnCol == <<"log_return">>

OfiPcaCol == <<"ofi_pca">>

\* range(levels)
LevelRange(levels) == 0 .. (levels - 1)

LadderColumns(levels) ==
    UNION {{BidPx(l), AskPx(l), BidSz(l), AskSz(l)} : l \in LevelRange(levels)}

-----------------------------------------------------------------------------
(* tables *)

NoResult == [cols |-> {}, rows |-> <<>>, ts_dtype |-> "none"]

Table(cols, rows, dtype) == [cols |-> cols, rows |-> rows, ts_dtype |-> dtype]

NRows(t) == Len(t.rows)

\* the rows of a sequence at the positions of idx (a sequence of positions)
Take(rows, idx) == [i \in 1 .. Len(idx) |-> rows[idx[i]]]

\* a row extended or overwritten with the cells of upd
With(row, upd) ==
    [c \in DOMAIN row \cup DOMAIN upd |-> IF c \in DOMAIN upd THEN upd[c] ELSE row[c]]

\* the positions 1..n in every order
Perms(n) ==
    {p \in [1 .. n -> 1 .. n] : \A i, j \in 1 .. n : i # j => p[i] # p[j]}

\* the order pandas gives group keys (lexicographic on symbol strings)
SymbolRank(s) == CASE s = "A" -> 1 [] s = "B" -> 2 [] OTHER -> 3

-----------------------------------------------------------------------------
(* bounds and input domains *)

\* the `levels` argument every call is made with
Levels == 2

\* the largest number of rows of an input ladder table
MaxRows == 2

Symbols == {"A", "B"}

Times == {1, 2}

PxValues == {1, 2, 3}

SzValues == {1, 2}

\* a ladder row: level 0 carries the quote drawn, level l the same quote one
\* tick deeper per level (bid lower, ask higher) with l more units of size
LadderRow(s, t, bpx, bsz, apx, asz, act, side, price) ==
    [c \in {SymbolCol, TsCol, ActionCol, SideCol, PriceCol} \cup LadderColumns(Levels) |->
        CASE c = SymbolCol -> s
          [] c = TsCol -> t
          [] c = ActionCol -> act
          [] c = SideCol -> side
          [] c = PriceCol -> Num(price)
          [] c[1] = "bid_px" -> Num(bpx - c[2])
          [] c[1] = "ask_px" -> Num(apx + c[2])
          [] c[1] = "bid_sz" -> Num(bsz + c[2])
          [] OTHER -> Num(asz + c[2])]

FullColumns == {SymbolCol, TsCol, ActionCol, SideCol, PriceCol} \cup LadderColumns(Levels)

\* every sequence of at most n elements of S
SeqsUpTo(S, n) == UNION {[1 .. k -> S] : k \in 0 .. n}

-----------------------------------------------------------------------------
(* calculate_order_flows, src/scripts/ofi_calculation.py *)

RequiredFlowColumns(levels) == {SymbolCol, TsCol} \cup LadderColumns(levels)

\* mutant of MayPrecede: the whole table is sorted by ts_event, ungrouped
MayPrecedeUngrouped(a, b) == a[TsCol] <= b[TsCol]

\* row a may stand before row b after groupby("symbol") (groups in key order)
\* and sort_values(by="ts_event") within the group
MayPrecede(a, b) ==
    \/ SymbolRank(a[SymbolCol]) < SymbolRank(b[SymbolCol])
    \/ a[SymbolCol] = b[SymbolCol] /\ a[TsCol] <= b[TsCol]

\* the orders the grouping and the (unstable, quicksort) sort may produce:
\* rows with equal (symbol, ts_event) may come out in either order
SortOrders(rows) ==
    {p \in Perms(Len(rows)) :
        \A i, j \in 1 .. Len(rows) : i < j => MayPrecede(rows[p[i]], rows[p[j]])}

\* group[col].shift(1): the previous row's cell within the symbol group, NaN on
\* the group's first row
Shift(sorted, i, col) ==
    IF i = 1 \/ sorted[i - 1][SymbolCol] # sorted[i][SymbolCol]
    THEN NaN
    ELSE sorted[i - 1][col]

\* mutant of BidFlow: a price decrease counts the size as inflow
BidFlowUnsigned(px, px_prev, sz, sz_prev) ==
    IF FGt(px, px_prev) THEN sz
    ELSE IF FEq(px, px_prev) THEN FSub(sz, sz_prev)
    ELSE sz

\* np.where(px > prev, sz, np.where(px == prev, sz - sz_prev, -sz))
BidFlow(px, px_prev, sz, sz_prev) ==
    IF FGt(px, px_prev) THEN sz
    ELSE IF FEq(px, px_prev) THEN FSub(sz, sz_prev)
    ELSE Neg(sz)

\* np.where(px > prev, -sz, np.where(px == prev, sz - sz_prev, sz))
AskFlow(px, px_prev, sz, sz_prev) ==
    IF FGt(px, px_prev) THEN Neg(sz)
    ELSE IF FEq(px, px_prev) THEN FSub(sz, sz_prev)
    ELSE sz

\* the of_{level}_b / of_{level}_a cells of row i of the sorted rows
FlowCells(sorted, i, levels) ==
    [c \in {OfB(l) : l \in LevelRange(levels)} \cup {OfA(l) : l \in LevelRange(levels)} |->
        IF c[1] = "of_b"
        THEN BidFlow(sorted[i][BidPx(c[2])], Shift(sorted, i, BidPx(c[2])),
                     sorted[i][BidSz(c[2])], Shift(sorted, i, BidSz(c[2])))
        ELSE AskFlow(sorted[i][AskPx(c[2])], Shift(sorted, i, AskPx(c[2])),
                     sorted[i][AskSz(c[2])], Shift(sorted, i, AskSz(c[2])))]

\* the call's outcome for sort order p: the columns are validated first, and
\* pd.concat raises on an empty list of groups (a table with no rows)
calculate_order_flows(tbl, levels, p) ==
    IF ~(RequiredFlowColumns(levels) \subseteq tbl.cols) \/ NRows(tbl) = 0
    THEN [raised |-> TRUE, table |-> NoResult]
    ELSE LET sorted == Take(tbl.rows, p)
         IN  [raised |-> FALSE,
              table |-> Table(tbl.cols \cup {OfB(l) : l \in LevelRange(levels)}
                                       \cup {OfA(l) : l \in LevelRange(levels)},
                              [i \in 1 .. Len(sorted) |->
                                  With(sorted[i], FlowCells(sorted, i, levels))],
                              tbl.ts_dtype)]

\* the table a pipeline stage is called with: the raw table first, then the
\* table the previous stage returned
Argument == IF called = <<>> THEN order_book_data ELSE result

CanCall(f) ==
    /\ status \in {"idle", "returned"}
    /\ \A i \in 1 .. Len(called) : called[i] # f

\* the sort orders the call may take: the sort is reached only by a table
\* that passed the column validation
FlowSortOrders(tbl, levels) ==
    IF RequiredFlowColumns(levels) \subseteq tbl.cols
    THEN SortOrders(tbl.rows)
    ELSE {[i \in 1 .. NRows(tbl) |-> i]}

CalculateOrderFlows ==
    /\ CanCall("calculate_order_flows")
    /\ \E p \in FlowSortOrders(Argument, Levels) :
          LET r == calculate_order_flows(Argument, Levels, p)
          IN  /\ result' = r.table
              /\ status' = IF r.raised THEN "raised" ELSE "returned"
    /\ given' = Argument
    /\ order_book_data' = Argument
    /\ called' = Append(called, "calculate_order_flows")
    /\ UNCHANGED <<merged_data, ofi_matrix, returns_matrix, cross_impact_coef, pending, fits>>

-----------------------------------------------------------------------------
(* aggregate_order_book_data, src/scripts/ofi_calculation.py *)

\* the `interval` argument, in seconds ("2S")
Interval == 2

\* a missing cell of an object (string) column
Missing == "<NA>"

IsMissing(col, x) == IF col \in {SymbolCol, ActionCol, SideCol} THEN x = Missing ELSE IsNaN(x)

\* mutant of LastColumns: the flow columns get a "last" rule too
LastColumnsWithFlows(levels) ==
    {BidPx(l) : l \in LevelRange(levels)} \cup {AskPx(l) : l \in LevelRange(levels)}
        \cup {ActionCol, SideCol, PriceCol}
        \cup {OfB(l) : l \in LevelRange(levels)} \cup {OfA(l) : l \in LevelRange(levels)}

\* mutant of LastColumns: no rule for action, side and price
LastColumnsPricesOnly(levels) ==
    {BidPx(l) : l \in LevelRange(levels)} \cup {AskPx(l) : l \in LevelRange(levels)}

\* the columns aggregated with "last" and with "sum"
LastColumns(levels) ==
    {BidPx(l) : l \in LevelRange(levels)} \cup {AskPx(l) : l \in LevelRange(levels)}
        \cup {ActionCol, SideCol, PriceCol}

SumColumns(levels) ==
    {BidSz(l) : l \in LevelRange(levels)} \cup {AskSz(l) : l \in LevelRange(levels)}

\* the start of the resampling bucket an event time falls in
Bucket(ts, interval) == (ts \div interval) * interval

\* the positions of idx (a set of positions) in ascending ts_event, ties in
\* input order: the resampler sorts a non-monotonic index with a stable sort
RECURSIVE TimeOrder(_, _)
TimeOrder(rows, idx) ==
    IF idx = {} THEN <<>>
    ELSE LET first == CHOOSE i \in idx :
                         \A j \in idx \ {i} :
                             \/ rows[i][TsCol] < rows[j][TsCol]
                             \/ rows[i][TsCol] = rows[j][TsCol] /\ i < j
         IN  <<first>> \o TimeOrder(rows, idx \ {first})

\* mutant of AggLast: the first cell of the bucket instead of the last
AggFirst(rows, order, col) ==
    IF order = <<>> THEN (IF col \in {ActionCol, SideCol} THEN Missing ELSE NaN)
    ELSE rows[order[1]][col]

\* "last": the last non-missing cell of the column, missing when there is none
RECURSIVE AggLast(_, _, _)
AggLast(rows, order, col) ==
    IF order = <<>> THEN (IF col \in {ActionCol, SideCol} THEN Missing ELSE NaN)
    ELSE IF IsMissing(col, rows[order[Len(order)]][col])
         THEN AggLast(rows, SubSeq(order, 1, Len(order) - 1), col)
         ELSE rows[order[Len(order)]][col]

\* "sum": the sum of the non-missing cells of the column, 0 when there is none
RECURSIVE AggSum(_, _, _)
AggSum(rows, order, col) ==
    IF order = <<>> THEN Num(0)
    ELSE LET x == rows[order[Len(order)]][col]
             rest == AggSum(rows, SubSeq(order, 1, Len(order) - 1), col)
         IN  IF IsNaN(x) THEN rest ELSE FAdd(rest, x)

SymbolsOf(rows) == {rows[i][SymbolCol] : i \in DOMAIN rows}

\* mutant of BucketsOf: only the buckets that hold a row are materialized
BucketsObserved(rows, sym, interval) ==
    {Bucket(rows[i][TsCol], interval) : i \in {k \in DOMAIN rows : rows[k][SymbolCol] = sym}}

\* the buckets resample() materializes for one instrument: every bucket from
\* that of its earliest row to that of its latest row
BucketsOf(rows, sym, interval) ==
    LET mine == {Bucket(rows[i][TsCol], interval) : i \in {k \in DOMAIN rows : rows[k][SymbolCol] = sym}}
    IN  {b \in 0 .. (CHOOSE m \in mine : \A x \in mine : x <= m) :
            /\ b % interval = 0
            /\ \E x \in mine : x <= b}

\* the (symbol, bucket) keys of the output in output order: instruments in key
\* order, buckets ascending
RECURSIVE KeyOrder(_)
KeyOrder(keys) ==
    IF keys = {} THEN <<>>
    ELSE LET first == CHOOSE k \in keys :
                         \A j \in keys \ {k} :
                             \/ SymbolRank(k[1]) < SymbolRank(j[1])
                             \/ k[1] = j[1] /\ k[2] < j[2]
         IN  <<first>> \o KeyOrder(keys \ {first})

\* one output row: the key and the aggregates of the instrument's rows in the bucket
AggRow(rows, key, levels, interval) ==
    LET order == TimeOrder(rows, {i \in DOMAIN rows :
                                     /\ rows[i][SymbolCol] = key[1]
                                     /\ Bucket(rows[i][TsCol], interval) = key[2]})
    IN  [c \in {SymbolCol, TsCol} \cup LastColumns(levels) \cup SumColumns(levels) |->
            IF c = SymbolCol THEN key[1]
            ELSE IF c = TsCol THEN key[2]
            ELSE IF c \in SumColumns(levels) THEN AggSum(rows, order, c)
            ELSE AggLast(rows, order, c)]

\* the call's outcome: ts_event is read (and converted in place) first, then
\* the symbol column and every column with an aggregation rule must exist
aggregate_order_book_data(tbl, levels, interval) ==
    IF TsCol \notin tbl.cols
    THEN [raised |-> TRUE, table |-> NoResult, caller |-> tbl]
    ELSE LET converted == Table(tbl.cols, tbl.rows, "datetime")
         IN  IF ~(({SymbolCol} \cup LastColumns(levels) \cup SumColumns(levels)) \subseteq tbl.cols)
             THEN [raised |-> TRUE, table |-> NoResult, caller |-> converted]
             ELSE LET keys == KeyOrder(UNION {{<<sym, b>> : b \in BucketsOf(tbl.rows, sym, interval)} :
                                                 sym \in SymbolsOf(tbl.rows)})
                  IN  [raised |-> FALSE,
                       table |-> Table({SymbolCol, TsCol} \cup LastColumns(levels) \cup SumColumns(levels),
                                       [i \in 1 .. Len(keys) |-> AggRow(tbl.rows, keys[i], levels, interval)],
                                       "datetime"),
                       caller |-> converted]

AggregateOrderBookData ==
    /\ CanCall("aggregate_order_book_data")
    /\ LET r == aggregate_order_book_data(Argument, Levels, Interval)
       IN  /\ result' = r.table
           /\ status' = IF r.raised THEN "raised" ELSE "returned"
           /\ order_book_data' = r.caller
    /\ given' = Argument
    /\ called' = Append(called, "aggregate_order_book_data")
    /\ UNCHANGED <<merged_data, ofi_matrix, returns_matrix, cross_impact_coef, pending, fits>>

-----------------------------------------------------------------------------
(* integrate_ofi_with_pca, src/scripts/pca_integration.py *)

\* ofi_columns, in list order: the bid flows of every level, then the ask flows
OfiColumns(levels) ==
    [i \in 1 .. (2 * levels) |-> IF i <= levels THEN OfB(i - 1) ELSE OfA(i - 1 - levels)]

OfiColumnSet(levels) == {OfiColumns(levels)[i] : i \in 1 .. (2 * levels)}

\* PCA.fit_transform validates its input: at least one row, no NaN, no infinity
PcaAccepts(tbl, levels) ==
    /\ NRows(tbl) >= 1
    /\ \A i \in 1 .. NRows(tbl) : \A c \in OfiColumnSet(levels) : IsFinite(tbl.rows[i][c])

\* the projection of a row on the first principal axis, kept symbolic: the
\* row's flow vector under the axis fitted on the whole table
Projection(tbl, i, levels) ==
    <<"pc1">> \o [k \in 1 .. (2 * levels) |-> tbl.rows[i][OfiColumns(levels)[k]]]

\* mutant of integrate_ofi_with_pca: the ofi_pca column is created on the
\* caller's table before the flow columns are selected and fitted
integrate_ofi_with_pca_assign_first(tbl, levels) ==
    LET out(cell(_)) == Table(tbl.cols \cup {OfiPcaCol},
                              [i \in 1 .. NRows(tbl) |->
                                  With(tbl.rows[i], [c \in {OfiPcaCol} |-> cell(i)])],
                              tbl.ts_dtype)
        Blank(i) == NaN
        Fitted(i) == Projection(tbl, i, levels)
    IN  IF ~(OfiColumnSet(levels) \subseteq tbl.cols) \/ ~PcaAccepts(tbl, levels)
        THEN [raised |-> TRUE, table |-> NoResult, caller |-> out(Blank)]
        ELSE [raised |-> FALSE, table |-> out(Fitted), caller |-> out(Fitted)]

\* the call's outcome: the flow columns are selected first (KeyError when one
\* is absent), the fit may reject the data, and only then is ofi_pca assigned
\* to the caller's table, which is also what is returned
integrate_ofi_with_pca(tbl, levels) ==
    IF ~(OfiColumnSet(levels) \subseteq tbl.cols) \/ ~PcaAccepts(tbl, levels)
    THEN [raised |-> TRUE, table |-> NoResult, caller |-> tbl]
    ELSE LET out == Table(tbl.cols \cup {OfiPcaCol},
                          [i \in 1 .. NRows(tbl) |->
                              With(tbl.rows[i], [c \in {OfiPcaCol} |-> Projection(tbl, i, levels)])],
                          tbl.ts_dtype)
         IN  [raised |-> FALSE, table |-> out, caller |-> out]

IntegrateOfiWithPca ==
    /\ CanCall("integrate_ofi_with_pca")
    /\ LET r == integrate_ofi_with_pca(Argument, Levels)
       IN  /\ result' = r.table
           /\ status' = IF r.raised THEN "raised" ELSE "returned"
           /\ order_book_data' = r.caller
    /\ given' = Argument
    /\ called' = Append(called, "integrate_ofi_with_pca")
    /\ UNCHANGED <<merged_data, ofi_matrix, returns_matrix, cross_impact_coef, pending, fits>>

-----------------------------------------------------------------------------
(* specification of calculate_order_flows on every small ladder table *)

\* the quotes of an uncrossed book: the best bid is below the best ask
Quotes ==
    {q \in PxValues \X SzValues \X PxValues \X SzValues : q[1] < q[3]}

FlowRowPool ==
    {LadderRow(s, t, q[1], q[2], q[3], q[4], "A", "B", 1) :
        s \in Symbols, t \in Times, q \in Quotes}

NoMatrix == [index |-> <<>>, columns |-> <<>>, cells |-> <<>>]

EstimatorIdle ==
    /\ ofi_matrix = NoMatrix
    /\ returns_matrix = NoMatrix
    /\ cross_impact_coef = NoMatrix
    /\ pending = <<>>
    /\ fits = <<>>

Init ==
    /\ order_book_data \in {Table(FullColumns, rows, "int") : rows \in SeqsUpTo(FlowRowPool, MaxRows)}
    /\ merged_data = NoResult
    /\ given = NoResult
    /\ result = NoResult
    /\ status = "idle"
    /\ called = <<>>
    /\ EstimatorIdle

Next == CalculateOrderFlows

Spec == Init /\ [][Next]_vars

-----------------------------------------------------------------------------
(* claims about calculate_order_flows *)

FlowsReturned ==
    /\ called = <<"calculate_order_flows">>
    /\ status = "returned"

\* the whole number held by a cell of an input ladder column
Whole(x) == x[1]

\* row i of the output has a predecessor: the row before it is of the same instrument
HasPredecessor(t, i) ==
    i > 1 /\ t.rows[i - 1][SymbolCol] = t.rows[i][SymbolCol]

\* the output's rows are the input's rows (on the input's columns), each once,
\* and the row before a row with a predecessor is that instrument's input row
\* next before it in time
OutputIsSortedInput(inp, out) ==
    /\ \E p \in Perms(NRows(inp)) :
          \A i \in 1 .. NRows(inp) :
              [c \in inp.cols |-> out.rows[i][c]] = inp.rows[p[i]]
    /\ NRows(out) = NRows(inp)
    /\ \A i \in 1 .. NRows(out) :
          HasPredecessor(out, i) =>
              /\ out.rows[i - 1][TsCol] <= out.rows[i][TsCol]
              /\ ~\E k \in 1 .. NRows(inp) :
                    /\ inp.rows[k][SymbolCol] = out.rows[i][SymbolCol]
                    /\ inp.rows[k][TsCol] > out.rows[i - 1][TsCol]
                    /\ inp.rows[k][TsCol] < out.rows[i][TsCol]

\* the case-branch formula of the bid flow on whole numbers
ExpectedBid(px, px_prev, sz, sz_prev) ==
    IF px > px_prev THEN sz ELSE IF px = px_prev THEN sz - sz_prev ELSE -sz

\* the case-branch formula of the ask flow on whole numbers
ExpectedAsk(px, px_prev, sz, sz_prev) ==
    IF px > px_prev THEN -sz ELSE IF px = px_prev THEN sz - sz_prev ELSE sz

\* C1: for every instrument, level and output row t with a predecessor t-1 in
\* the instrument's time-sorted sequence, of_{level}_b[t] and of_{level}_a[t]
\* equal the case-branch formula on the row's and the predecessor's price and size
C1_FlowFormula ==
    FlowsReturned =>
        /\ OutputIsSortedInput(given, result)
        /\ \A i \in 1 .. NRows(result) : \A l \in LevelRange(Levels) :
              HasPredecessor(result, i) =>
                  LET r == result.rows[i]
                      q == result.rows[i - 1]
                  IN  /\ r[OfB(l)] = Num(ExpectedBid(Whole(r[BidPx(l)]), Whole(q[BidPx(l)]),
                                                     Whole(r[BidSz(l)]), Whole(q[BidSz(l)])))
                      /\ r[OfA(l)] = Num(ExpectedAsk(Whole(r[AskPx(l)]), Whole(q[AskPx(l)]),
                                                     Whole(r[AskSz(l)]), Whole(q[AskSz(l)])))

\* a returned table in which an instrument's later row (given out of time
\* order) raised its bid, with more size, and kept its ask price
C1_Witness ==
    /\ FlowsReturned
    /\ given.rows[1][TsCol] > given.rows[NRows(given)][TsCol]
    /\ \E i \in 1 .. NRows(result) :
          /\ HasPredecessor(result, i)
          /\ Whole(result.rows[i][BidPx(0)]) > Whole(result.rows[i - 1][BidPx(0)])
          /\ Whole(result.rows[i][AskPx(0)]) = Whole(result.rows[i - 1][AskPx(0)])
          /\ Whole(result.rows[i][AskSz(0)]) > Whole(result.rows[i - 1][AskSz(0)])

\* C2: each instrument's earliest output row (no predecessor) carries no
\* defined flow: every of_{level}_b and of_{level}_a of it is missing
C2_FirstRowUndefined ==
    FlowsReturned =>
        \A i \in 1 .. NRows(result) : \A l \in LevelRange(Levels) :
            ~HasPredecessor(result, i) =>
                IsNaN(result.rows[i][OfB(l)]) /\ IsNaN(result.rows[i][OfA(l)])

-----------------------------------------------------------------------------
(* specification of aggregate_order_book_data alone *)

\* event times with two in one bucket (2, 3) and a gap (bucket 4 holds 5 only)
AggTimes == {1, 2, 3, 5}

AggQuotes == {<<1, 1, 2, 1>>, <<1, 2, 3, 2>>, <<2, 1, 3, 1>>}

AuxValues == {<<"A", "B", 1>>, <<"T", "A", 2>>}

AggRowPool ==
    {LadderRow(s, t, q[1], q[2], q[3], q[4], x[1], x[2], x[3]) :
        s \in Symbols, t \in AggTimes, q \in AggQuotes, x \in AuxValues}

InitAgg ==
    /\ order_book_data \in {Table(FullColumns, rows, "int") : rows \in SeqsUpTo(AggRowPool, MaxRows)}
    /\ merged_data = NoResult
    /\ given = NoResult
    /\ result = NoResult
    /\ status = "idle"
    /\ called = <<>>
    /\ EstimatorIdle

NextAgg == AggregateOrderBookData

SpecAgg == InitAgg /\ [][NextAgg]_vars

-----------------------------------------------------------------------------
(* specification of the ladder pipeline: the three stages in any order *)

PipelineRowPool ==
    {LadderRow(s, t, q[1], q[2], q[3], q[4], "A", "B", 1) :
        s \in Symbols, t \in AggTimes, q \in AggQuotes}

InitPipeline ==
    /\ order_book_data \in {Table(FullColumns, rows, "int") : rows \in SeqsUpTo(PipelineRowPool, MaxRows)}
    /\ merged_data = NoResult
    /\ given = NoResult
    /\ result = NoResult
    /\ status = "idle"
    /\ called = <<>>
    /\ EstimatorIdle

NextPipeline ==
    \/ CalculateOrderFlows
    \/ AggregateOrderBookData
    \/ IntegrateOfiWithPca

SpecPipeline == InitPipeline /\ [][NextPipeline]_vars

-----------------------------------------------------------------------------
(* claims about the pipeline and the aggregator *)

AllFlowColumns ==
    {OfB(l) : l \in LevelRange(Levels)} \cup {OfA(l) : l \in LevelRange(Levels)}

\* C3 as stated: the aggregator applied to the order-flow calculator's output
\* keeps every of_{level}_b and of_{level}_a column, and integrate_ofi_with_pca
\* applied next returns a table instead of failing
C3_FlowColumnsSurvive ==
    /\ (called = <<"calculate_order_flows", "aggregate_order_book_data">> /\ status = "returned")
           => AllFlowColumns \subseteq result.cols
    /\ called = <<"calculate_order_flows", "aggregate_order_book_data", "integrate_ofi_with_pca">>
           => status = "returned"

\* C3 amended: the aggregator applied to the order-flow calculator's output
\* returns only symbol, ts_event, the ladder columns and action, side, price,
\* so none of the flow columns, and integrate_ofi_with_pca applied next raises
\* and returns no table
C3_AggregatorDropsFlows ==
    /\ (called = <<"calculate_order_flows", "aggregate_order_book_data">> /\ status = "returned")
           => /\ result.cols = FullColumns
              /\ AllFlowColumns \subseteq given.cols
              /\ AllFlowColumns \cap result.cols = {}
    /\ called = <<"calculate_order_flows", "aggregate_order_book_data", "integrate_ofi_with_pca">>
           => /\ status = "raised"
              /\ result = NoResult
              /\ OfiPcaCol \notin order_book_data.cols

\* the reducer was called on the aggregate of a two-row flow table and raised
C3_Witness ==
    /\ called = <<"calculate_order_flows", "aggregate_order_book_data", "integrate_ofi_with_pca">>
    /\ status = "raised"
    /\ NRows(given) >= 2

AggReturned ==
    /\ called = <<"aggregate_order_book_data">>
    /\ status = "returned"

\* the input rows of one instrument in one bucket
Members(inp, sym, b) ==
    {i \in 1 .. NRows(inp) :
        /\ inp.rows[i][SymbolCol] = sym
        /\ b <= inp.rows[i][TsCol]
        /\ inp.rows[i][TsCol] < b + Interval}

\* the last of a set of input rows: the latest in time, the later given on a tie
LastMember(inp, idx) ==
    CHOOSE i \in idx :
        \A j \in idx \ {i} :
            \/ inp.rows[j][TsCol] < inp.rows[i][TsCol]
            \/ inp.rows[j][TsCol] = inp.rows[i][TsCol] /\ j < i

RECURSIVE TotalOf(_, _, _)
TotalOf(inp, idx, col) ==
    IF idx = {} THEN 0
    ELSE LET i == CHOOSE k \in idx : TRUE
         IN  Whole(inp.rows[i][col]) + TotalOf(inp, idx \ {i}, col)

BucketStarts == {b \in 0 .. 8 : b % Interval = 0}

\* C10: for every instrument and bucket holding at least one input row, the
\* output has one row for it whose bid_sz_*/ask_sz_* are the sums over the
\* instrument's rows in the bucket and whose bid_px_*/ask_px_*, action, side
\* and price are those of the last of these rows
C10_BucketReduction ==
    AggReturned =>
        \A sym \in Symbols : \A b \in BucketStarts :
            Members(given, sym, b) # {} =>
                LET idx == Members(given, sym, b)
                    last == given.rows[LastMember(given, idx)]
                    hits == {k \in 1 .. NRows(result) :
                                result.rows[k][SymbolCol] = sym /\ result.rows[k][TsCol] = b}
                IN  /\ Cardinality(hits) = 1
                    /\ \A k \in hits :
                          /\ \A l \in LevelRange(Levels) :
                                /\ result.rows[k][BidSz(l)] = Num(TotalOf(given, idx, BidSz(l)))
                                /\ result.rows[k][AskSz(l)] = Num(TotalOf(given, idx, AskSz(l)))
                                /\ result.rows[k][BidPx(l)] = last[BidPx(l)]
                                /\ result.rows[k][AskPx(l)] = last[AskPx(l)]
                          /\ result.rows[k][ActionCol] = last[ActionCol]
                          /\ result.rows[k][SideCol] = last[SideCol]
                          /\ result.rows[k][PriceCol] = last[PriceCol]

\* two rows of one instrument in one bucket, the earlier one given last and
\* differing in price and action
C10_Witness ==
    /\ AggReturned
    /\ \E sym \in Symbols : \E b \in BucketStarts : \E i, j \in Members(given, sym, b) :
          /\ i < j
          /\ given.rows[i][TsCol] > given.rows[j][TsCol]
          /\ given.rows[i][BidPx(0)] # given.rows[j][BidPx(0)]
          /\ given.rows[i][ActionCol] # given.rows[j][ActionCol]
    /\ NRows(result) >= 1

-----------------------------------------------------------------------------
(* calculate_log_returns, src/scripts/returns.py *)

\* cells of the log_return column: ln of a positive finite ratio is kept
\* symbolic as <<"ln", ratio>>; the other outcomes of np.log are NaN and +-inf
LogNaN == <<"nan", NaN>>

LogPosInf == <<"inf", PosInf>>

LogNegInf == <<"-inf", NegInf>>

\* np.log: NaN for NaN or a negative argument, -inf for 0, +inf for +inf
NpLog(q) ==
    IF IsNaN(q) \/ FLt(q, Num(0)) THEN LogNaN
    ELSE IF q = Num(0) THEN LogNegInf
    ELSE IF q = PosInf THEN LogPosInf
    ELSE <<"ln", q>>

RequiredReturnColumns == {SymbolCol, TsCol, BidPx(0), AskPx(0)}

\* (bid_px_00 + ask_px_00) / 2
MidPrice(row) == FDiv(FAdd(row[BidPx(0)], row[AskPx(0)]), Num(2))

\* the positions of the rows in groupby("symbol") order: groups in key order,
\* rows of a group in the order given
RECURSIVE GroupOrder(_, _)
GroupOrder(rows, idx) ==
    IF idx = {} THEN <<>>
    ELSE LET first == CHOOSE i \in idx :
                         \A j \in idx \ {i} :
                             \/ SymbolRank(rows[i][SymbolCol]) < SymbolRank(rows[j][SymbolCol])
                             \/ rows[i][SymbolCol] = rows[j][SymbolCol] /\ i < j
         IN  <<first>> \o GroupOrder(rows, idx \ {first})

\* mutant of LogReturn: the shift runs over the whole table, across instruments
LogReturnUngrouped(grouped, i) ==
    NpLog(FDiv(grouped[i][MidPriceCol],
               IF i = 1 THEN NaN ELSE grouped[i - 1][MidPriceCol]))

\* np.log(x["mid_price"] / x["mid_price"].shift(1)) for row i of the grouped rows
LogReturn(grouped, i) ==
    NpLog(FDiv(grouped[i][MidPriceCol], Shift(grouped, i, MidPriceCol)))

\* mutant of ReplaceInf: infinities are left in place
KeepInf(x) == x

\* log_returns["log_return"].replace([np.inf, -np.inf], np.nan, inplace=True),
\* as it acts in the pandas versions the function runs on (the grouped apply
\* keeps the symbol column and the column selection is not a copy)
ReplaceInf(x) == IF x = LogPosInf \/ x = LogNegInf THEN LogNaN ELSE x

\* dropna(subset=["log_return"]): the rows whose log_return is not NaN, in order
RECURSIVE DropNa(_)
DropNa(rows) ==
    IF rows = <<>> THEN <<>>
    ELSE IF Head(rows)[LogReturnCol] = LogNaN
         THEN DropNa(Tail(rows))
         ELSE <<Head(rows)>> \o DropNa(Tail(rows))

\* mutant of calculate_log_returns: mid_price is assigned before the columns
\* are validated, so a table with both best prices but no symbol or ts_event
\* column is changed before the call raises
calculate_log_returns_late_check(tbl) ==
    IF ~({BidPx(0), AskPx(0)} \subseteq tbl.cols)
    THEN [raised |-> TRUE, table |-> NoResult, caller |-> tbl]
    ELSE [raised |-> TRUE,
          table |-> NoResult,
          caller |-> Table(tbl.cols \cup {MidPriceCol},
                           [i \in 1 .. NRows(tbl) |->
                               With(tbl.rows[i], [c \in {MidPriceCol} |-> MidPrice(tbl.rows[i])])],
                           tbl.ts_dtype)]

\* the call's outcome: columns validated, mid_price added to the caller's
\* table, then the grouped apply (which yields no log_return column for a
\* table with no rows, so the next step raises), the replacement and the drop
calculate_log_returns(tbl) ==
    IF ~(RequiredReturnColumns \subseteq tbl.cols)
    THEN [raised |-> TRUE, table |-> NoResult, caller |-> tbl]
    ELSE LET withMid == Table(tbl.cols \cup {MidPriceCol},
                              [i \in 1 .. NRows(tbl) |->
                                  With(tbl.rows[i], [c \in {MidPriceCol} |-> MidPrice(tbl.rows[i])])],
                              tbl.ts_dtype)
         IN  IF NRows(tbl) = 0
             THEN [raised |-> TRUE, table |-> NoResult, caller |-> withMid]
             ELSE LET grouped == Take(withMid.rows, GroupOrder(withMid.rows, DOMAIN withMid.rows))
                      applied == [i \in 1 .. Len(grouped) |->
                                     With(grouped[i],
                                          [c \in {LogReturnCol} |-> ReplaceInf(LogReturn(grouped, i))])]
                      kept == DropNa(applied)
                  IN  [raised |-> FALSE,
                       table |-> Table({SymbolCol, TsCol, LogReturnCol},
                                       [i \in 1 .. Len(kept) |->
                                           [c \in {SymbolCol, TsCol, LogReturnCol} |-> kept[i][c]]],
                                       tbl.ts_dtype),
                       caller |-> withMid]

CalculateLogReturns ==
    /\ CanCall("calculate_log_returns")
    /\ LET r == calculate_log_returns(Argument)
       IN  /\ result' = r.table
           /\ status' = IF r.raised THEN "raised" ELSE "returned"
           /\ order_book_data' = r.caller
    /\ given' = Argument
    /\ called' = Append(called, "calculate_log_returns")
    /\ UNCHANGED <<merged_data, ofi_matrix, returns_matrix, cross_impact_coef, pending, fits>>

-----------------------------------------------------------------------------
(* specification of calculate_log_returns: tables of 1..MaxReturnRows rows,
   time-ordered as given (ts_event is the row's position), whose best prices
   include zero and negative values *)

MaxReturnRows == 3

ReturnBids == {-2, 0, 1}

ReturnAsks == {0, 1}

\* the ladder rows of the chosen symbols and best prices, one per position
ReturnRows(syms, bids, asks) ==
    [i \in DOMAIN syms |-> LadderRow(syms[i], i, bids[i], 1, asks[i], 1, "A", "B", 1)]

InitReturns ==
    /\ order_book_data \in
          {Table(FullColumns, ReturnRows(syms, bids, asks), "int") :
              <<syms, bids, asks>> \in
                  UNION {[1 .. n -> Symbols] \X [1 .. n -> ReturnBids] \X [1 .. n -> ReturnAsks] :
                            n \in 1 .. MaxReturnRows}}
    /\ merged_data = NoResult
    /\ given = NoResult
    /\ result = NoResult
    /\ status = "idle"
    /\ called = <<>>
    /\ EstimatorIdle

NextReturns == CalculateLogReturns

SpecReturns == InitReturns /\ [][NextReturns]_vars

-----------------------------------------------------------------------------
(* claims about calculate_log_returns *)

ReturnsReturned ==
    /\ called = <<"calculate_log_returns">>
    /\ status = "returned"

RowsOf(t, sym) == {i \in 1 .. NRows(t) : t.rows[i][SymbolCol] = sym}

\* bid_px_00 + ask_px_00 of an input row: twice its mid-price
PriceSum(row) == Whole(row[BidPx(0)]) + Whole(row[AskPx(0)])

\* the input row of the same instrument given next before row i (0: none)
PrevOf(inp, i) ==
    LET before == {j \in 1 .. NRows(inp) : j < i /\ inp.rows[j][SymbolCol] = inp.rows[i][SymbolCol]}
    IN  IF before = {} THEN 0 ELSE CHOOSE j \in before : \A k \in before : k <= j

\* the mid-price ratio of input row i to its predecessor is positive and finite
GoodRatio(inp, i) ==
    /\ PrevOf(inp, i) # 0
    /\ PriceSum(inp.rows[i]) * PriceSum(inp.rows[PrevOf(inp, i)]) > 0

\* C4 as stated: every instrument with N >= 1 input rows has exactly N-1
\* output rows, whatever the best bid and ask prices are
C4_ExactlyNMinusOne ==
    ReturnsReturned =>
        \A sym \in Symbols :
            RowsOf(given, sym) # {} =>
                Cardinality(RowsOf(result, sym)) = Cardinality(RowsOf(given, sym)) - 1

\* C4 amended: every instrument with N >= 1 input rows has one output row per
\* input row whose mid-price ratio to its predecessor is positive and finite:
\* at most N-1 rows, and exactly N-1 when all its mid-prices are positive
C4_OneRowPerFiniteReturn ==
    ReturnsReturned =>
        \A sym \in Symbols :
            RowsOf(given, sym) # {} =>
                /\ Cardinality(RowsOf(result, sym))
                       = Cardinality({i \in RowsOf(given, sym) : GoodRatio(given, i)})
                /\ Cardinality(RowsOf(result, sym)) <= Cardinality(RowsOf(given, sym)) - 1
                /\ (\A i \in RowsOf(given, sym) : PriceSum(given.rows[i]) > 0)
                       => Cardinality(RowsOf(result, sym)) = Cardinality(RowsOf(given, sym)) - 1

\* an instrument with three rows and a zero mid-price in the middle: no row out
C4_Witness ==
    /\ ReturnsReturned
    /\ \E sym \in Symbols :
          /\ Cardinality(RowsOf(given, sym)) = 3
          /\ \E i \in RowsOf(given, sym) : PriceSum(given.rows[i]) = 0
          /\ RowsOf(result, sym) = {}

\* C5: no output row has a non-finite log_return; rows whose mid-price ratio
\* is zero, negative, 0/0 or infinite, and each instrument's first row, are
\* absent; every output row has log_return = ln(mid_t / mid_{t-1}) of two
\* consecutive rows of its instrument in input order
C5_FiniteReturnsOnly ==
    ReturnsReturned =>
        /\ result.cols = {SymbolCol, TsCol, LogReturnCol}
        /\ \A k \in 1 .. NRows(result) :
              LET i == result.rows[k][TsCol]
              IN  /\ i \in 1 .. NRows(given)
                  /\ result.rows[k][SymbolCol] = given.rows[i][SymbolCol]
                  /\ GoodRatio(given, i)
                  /\ result.rows[k][LogReturnCol]
                         = <<"ln", Ratio(PriceSum(given.rows[i]),
                                         PriceSum(given.rows[PrevOf(given, i)]))>>
        /\ \A i \in 1 .. NRows(given) :
              ~GoodRatio(given, i) =>
                  ~\E k \in 1 .. NRows(result) : result.rows[k][TsCol] = i

\* a returned table holding a finite return, from an input in which a later
\* row of the same instrument has a zero mid-price (ratio 0, log -inf)
C5_Witness ==
    /\ ReturnsReturned
    /\ NRows(result) >= 1
    /\ \E i \in 1 .. NRows(given) : GoodRatio(given, i)
    /\ \E i \in 1 .. NRows(given) :
          /\ PrevOf(given, i) # 0
          /\ PriceSum(given.rows[i]) = 0
          /\ PriceSum(given.rows[PrevOf(given, i)]) > 0

-----------------------------------------------------------------------------
(* preprocess_data, src/scripts/cross_impact.py *)

KeyOf(row) == <<row[TsCol], row[SymbolCol]>>

\* merged_data.duplicated(subset=["ts_event", "symbol"], keep=False) is not
\* empty: some two rows share (ts_event, symbol)
HasDuplicates(tbl) ==
    \E i, j \in 1 .. NRows(tbl) : i # j /\ KeyOf(tbl.rows[i]) = KeyOf(tbl.rows[j])

\* the columns averaged by the collapse
MeanColumns == {OfiPcaCol, LogReturnCol, MidPriceCol}

\* the group keys in the order groupby gives them: ts_event, then symbol
RECURSIVE GroupKeys(_)
GroupKeys(keys) ==
    IF keys = {} THEN <<>>
    ELSE LET first == CHOOSE k \in keys :
                         \A j \in keys \ {k} :
                             \/ k[1] < j[1]
                             \/ k[1] = j[1] /\ SymbolRank(k[2]) < SymbolRank(j[2])
         IN  <<first>> \o GroupKeys(keys \ {first})

\* the sum and the count of the non-missing cells of a column over a set of rows
RECURSIVE SumCount(_, _, _)
SumCount(rows, idx, col) ==
    IF idx = {} THEN <<Num(0), 0>>
    ELSE LET i == CHOOSE k \in idx : TRUE
             rest == SumCount(rows, idx \ {i}, col)
         IN  IF IsNaN(rows[i][col]) THEN rest
             ELSE <<FAdd(rest[1], rows[i][col]), rest[2] + 1>>

\* mutant of Mean: the sum of the cells instead of their mean
MeanAsSum(rows, idx, col) == SumCount(rows, idx, col)[1]

\* "mean": the mean of the non-missing cells, NaN when there is none
Mean(rows, idx, col) ==
    LET sc == SumCount(rows, idx, col)
    IN  IF sc[2] = 0 THEN NaN ELSE FDiv(sc[1], Num(sc[2]))

\* mutant of Collapse: every row is kept and given its group's means
\* (a transform instead of an aggregation)
CollapseKeepingRows(tbl) ==
    Table({TsCol, SymbolCol} \cup MeanColumns,
          [k \in 1 .. NRows(tbl) |->
              [c \in {TsCol, SymbolCol} \cup MeanColumns |->
                  IF c \in {TsCol, SymbolCol} THEN tbl.rows[k][c]
                  ELSE Mean(tbl.rows, {i \in 1 .. NRows(tbl) : KeyOf(tbl.rows[i]) = KeyOf(tbl.rows[k])}, c)]],
          tbl.ts_dtype)

\* groupby(["ts_event", "symbol"], as_index=False).agg(mean of the three columns)
Collapse(tbl) ==
    LET keys == GroupKeys({KeyOf(tbl.rows[i]) : i \in 1 .. NRows(tbl)})
    IN  Table({TsCol, SymbolCol} \cup MeanColumns,
              [k \in 1 .. Len(keys) |->
                  [c \in {TsCol, SymbolCol} \cup MeanColumns |->
                      IF c = TsCol THEN keys[k][1]
                      ELSE IF c = SymbolCol THEN keys[k][2]
                      ELSE Mean(tbl.rows, {i \in 1 .. NRows(tbl) : KeyOf(tbl.rows[i]) = keys[k]}, c)]],
              tbl.ts_dtype)

\* the call's outcome: the key columns are read first; only a table with
\* duplicates is collapsed, and the collapse needs all three averaged columns
preprocess_data(tbl) ==
    IF ~({TsCol, SymbolCol} \subseteq tbl.cols)
    THEN [raised |-> TRUE, table |-> NoResult]
    ELSE IF ~HasDuplicates(tbl)
    THEN [raised |-> FALSE, table |-> tbl]
    ELSE IF ~(MeanColumns \subseteq tbl.cols)
    THEN [raised |-> TRUE, table |-> NoResult]
    ELSE [raised |-> FALSE, table |-> Collapse(tbl)]

\* the largest number of preprocess_data calls in a row
MaxPasses == 2

\* preprocess_data on the merged table, then on its own output
PreprocessData ==
    /\ status \in {"idle", "returned"}
    /\ Len(called) < MaxPasses
    /\ LET arg == IF called = <<>> THEN merged_data ELSE result
           r == preprocess_data(arg)
       IN  /\ result' = r.table
           /\ status' = IF r.raised THEN "raised" ELSE "returned"
           /\ given' = arg
    /\ called' = Append(called, "preprocess_data")
    /\ UNCHANGED <<order_book_data, merged_data, ofi_matrix, returns_matrix,
                   cross_impact_coef, pending, fits>>

-----------------------------------------------------------------------------
(* specification of preprocess_data: merged tables of at most MaxMergedRows
   rows, with and without a mid_price column *)

MaxMergedRows == 3

\* the (ofi_pca, log_return, mid_price) cells a merged row may carry
MergedValues == {<<1, 0, 2>>, <<2, 1, 4>>, <<4, 1, 2>>}

MergedRow(t, s, v, cols) ==
    [c \in cols |->
        CASE c = TsCol -> t
          [] c = SymbolCol -> s
          [] c = OfiPcaCol -> Num(v[1])
          [] c = LogReturnCol -> Num(v[2])
          [] OTHER -> Num(v[3])]

MergedSchemas ==
    {{TsCol, SymbolCol, OfiPcaCol, LogReturnCol, MidPriceCol},
     {TsCol, SymbolCol, OfiPcaCol, LogReturnCol}}

InitPre ==
    /\ merged_data \in
          {Table(cols, rows, "datetime") :
              <<cols, rows>> \in
                  UNION {{cs} \X SeqsUpTo({MergedRow(t, s, v, cs) :
                                              t \in Times, s \in Symbols, v \in MergedValues},
                                          MaxMergedRows) : cs \in MergedSchemas}}
    /\ order_book_data = NoResult
    /\ given = NoResult
    /\ result = NoResult
    /\ status = "idle"
    /\ called = <<>>
    /\ EstimatorIdle

NextPre == PreprocessData

SpecPre == InitPre /\ [][NextPre]_vars

-----------------------------------------------------------------------------
(* claims about preprocess_data *)

UniqueKeys(t) ==
    \A i, j \in 1 .. NRows(t) : KeyOf(t.rows[i]) = KeyOf(t.rows[j]) => i = j

\* C6: preprocess_data applied to its own output returns that output again,
\* and the output of one pass has no two rows with the same (ts_event, symbol)
C6_Idempotent ==
    /\ (called = <<"preprocess_data">> /\ status = "returned") => UniqueKeys(result)
    /\ called = <<"preprocess_data", "preprocess_data">>
           => /\ status = "returned"
              /\ result = given

\* the second pass ran on the collapse of a table that had duplicates
C6_Witness ==
    /\ called = <<"preprocess_data", "preprocess_data">>
    /\ status = "returned"
    /\ HasDuplicates(merged_data)
    /\ NRows(given) >= 2

FirstPass == called = <<"preprocess_data">>

\* the result is the collapse of inp: one row per distinct (ts_event, symbol)
\* holding the means of ofi_pca, log_return and mid_price over the pair's rows
IsCollapseOf(inp, out) ==
    /\ out.cols = {TsCol, SymbolCol, OfiPcaCol, LogReturnCol, MidPriceCol}
    /\ UniqueKeys(out)
    /\ {KeyOf(out.rows[k]) : k \in 1 .. NRows(out)} = {KeyOf(inp.rows[i]) : i \in 1 .. NRows(inp)}
    /\ \A k \in 1 .. NRows(out) :
          LET idx == {i \in 1 .. NRows(inp) : KeyOf(inp.rows[i]) = KeyOf(out.rows[k])}
          IN  \A c \in {OfiPcaCol, LogReturnCol, MidPriceCol} :
                  out.rows[k][c] = Ratio(TotalOf(inp, idx, c), Cardinality(idx))

\* C7 as stated: a table without duplicates is returned unchanged, and a table
\* with duplicates is returned collapsed; there is no other outcome
C7_TwoOutcomes ==
    FirstPass =>
        /\ status = "returned"
        /\ ~HasDuplicates(given) => result = given
        /\ HasDuplicates(given) => IsCollapseOf(given, result)

\* C7 amended: a table without duplicates is returned unchanged, with or
\* without a mid_price column; a table with duplicates and a mid_price column
\* is returned collapsed; a table with duplicates and no mid_price column
\* makes the call raise and return nothing
C7_ThreeOutcomes ==
    FirstPass =>
        /\ ~HasDuplicates(given) => (status = "returned" /\ result = given)
        /\ (HasDuplicates(given) /\ MidPriceCol \in given.cols)
               => (status = "returned" /\ IsCollapseOf(given, result))
        /\ (HasDuplicates(given) /\ MidPriceCol \notin given.cols)
               => (status = "raised" /\ result = NoResult)

\* a three-row table with mid_price, two rows sharing a key and one alone, collapsed
C7_Witness ==
    /\ FirstPass
    /\ status = "returned"
    /\ MidPriceCol \in given.cols
    /\ NRows(given) = 3
    /\ NRows(result) = 2
    /\ \E i, j \in 1 .. 3 :
          /\ i # j
          /\ KeyOf(given.rows[i]) = KeyOf(given.rows[j])
          /\ given.rows[i][OfiPcaCol] # given.rows[j][OfiPcaCol]

-----------------------------------------------------------------------------
(* contemporaneous_cross_impact, src/scripts/cross_impact.py *)

\* LassoCV(cv=5): the number of cross-validation folds
Cv == 5

RECURSIVE Ascending(_)
Ascending(S) ==
    IF S = {} THEN <<>>
    ELSE LET m == CHOOSE x \in S : \A y \in S : x <= y
         IN  <<m>> \o Ascending(S \ {m})

RECURSIVE SymbolOrder(_)
SymbolOrder(S) ==
    IF S = {} THEN <<>>
    ELSE LET m == CHOOSE x \in S : \A y \in S : SymbolRank(x) <= SymbolRank(y)
         IN  <<m>> \o SymbolOrder(S \ {m})

Range(f) == {f[i] : i \in DOMAIN f}

\* merged_data.pivot(index="ts_event", columns="symbol", values=col), for a
\* table without duplicate (ts_event, symbol): NaN where the pair has no row
Pivot(tbl, col) ==
    LET ts == {tbl.rows[i][TsCol] : i \in 1 .. NRows(tbl)}
        syms == {tbl.rows[i][SymbolCol] : i \in 1 .. NRows(tbl)}
    IN  [index |-> Ascending(ts),
         columns |-> SymbolOrder(syms),
         cells |-> [t \in ts |-> [sym \in syms |->
                      IF \E i \in 1 .. NRows(tbl) : KeyOf(tbl.rows[i]) = <<t, sym>>
                      THEN tbl.rows[CHOOSE i \in 1 .. NRows(tbl) : KeyOf(tbl.rows[i]) = <<t, sym>>][col]
                      ELSE NaN]]]

\* pivot raises on a missing column and on duplicate (ts_event, symbol) entries
PivotRaises(tbl) ==
    \/ ~({TsCol, SymbolCol, OfiPcaCol, LogReturnCol} \subseteq tbl.cols)
    \/ HasDuplicates(tbl)

\* pd.DataFrame(index=returns_matrix.columns, columns=ofi_matrix.columns): every cell empty
EmptyCoef(targets, predictors) ==
    [index |-> targets,
     columns |-> predictors,
     cells |-> [t \in Range(targets) |-> [q \in Range(predictors) |-> <<"empty">>]]]

\* y = returns_matrix[target].dropna(): the timestamps with a return, ascending
YIndex(returns, target) ==
    SelectSeq(returns.index, LAMBDA t : ~IsNaN(returns.cells[t][target]))

\* mutant of XRows: the missing OFI values are not filled
XRowsNoFill(ofi, yindex) ==
    [k \in 1 .. Len(yindex) |->
        [sym \in Range(ofi.columns) |-> ofi.cells[yindex[k]][sym]]]

\* X = ofi_matrix.loc[y.index].fillna(0): one row per timestamp of y
XRows(ofi, yindex) ==
    [k \in 1 .. Len(yindex) |->
        [sym \in Range(ofi.columns) |->
            IF IsNaN(ofi.cells[yindex[k]][sym]) THEN Num(0) ELSE ofi.cells[yindex[k]][sym]]]

\* mutant of FitRaises: a failed fit is swallowed and the loop goes on
FitNeverRaises(returns, ofi, target) == FALSE

\* lasso.fit(X, y) raises when there are fewer samples than folds or a
\* non-finite value in y or X
FitRaises(returns, ofi, target) ==
    LET yindex == YIndex(returns, target)
    IN  \/ Len(yindex) < Cv
        \/ \E k \in 1 .. Len(yindex) : ~IsFinite(returns.cells[yindex[k]][target])
        \/ \E k \in 1 .. Len(yindex) : \E sym \in Range(ofi.columns) :
              ~IsFinite(XRows(ofi, yindex)[k][sym])

\* mutant of CoefRow: only the self-impact cell of the row is stored
CoefRowDiagonal(target, predictors) ==
    [q \in Range(predictors) |-> IF q = target THEN <<"coef", target, q>> ELSE <<"empty">>]

\* lasso.coef_ as stored in the target's row: one fitted coefficient per predictor
CoefRow(target, predictors) ==
    [q \in Range(predictors) |-> <<"coef", target, q>>]

\* steps 1-3: the two pivots and the empty coefficient frame
PivotStep ==
    /\ status = "idle"
    /\ called = <<>>
    /\ called' = <<"contemporaneous_cross_impact">>
    /\ given' = merged_data
    /\ IF PivotRaises(merged_data)
       THEN /\ status' = "raised"
            /\ UNCHANGED <<ofi_matrix, returns_matrix, cross_impact_coef, pending>>
       ELSE /\ status' = "running"
            /\ ofi_matrix' = Pivot(merged_data, OfiPcaCol)
            /\ returns_matrix' = Pivot(merged_data, LogReturnCol)
            /\ cross_impact_coef' = EmptyCoef(Pivot(merged_data, LogReturnCol).columns,
                                              Pivot(merged_data, OfiPcaCol).columns)
            /\ pending' = Pivot(merged_data, LogReturnCol).columns
    /\ UNCHANGED <<order_book_data, merged_data, result, fits>>

\* step 4, one iteration: the next target's sample (y's timestamps and X as
\* built on line 36, before it is standardized) is recorded in fits, then the
\* regression either raises or fills the target's row
FitTarget ==
    /\ status = "running"
    /\ pending # <<>>
    /\ LET target == Head(pending)
       IN  /\ fits' = Append(fits, [target |-> target,
                                    index |-> YIndex(returns_matrix, target),
                                    X |-> XRows(ofi_matrix, YIndex(returns_matrix, target))])
           /\ IF FitRaises(returns_matrix, ofi_matrix, target)
              THEN /\ status' = "raised"
                   /\ UNCHANGED <<cross_impact_coef, pending>>
              ELSE /\ cross_impact_coef' =
                          [cross_impact_coef EXCEPT !.cells[target] =
                              CoefRow(target, cross_impact_coef.columns)]
                   /\ pending' = Tail(pending)
                   /\ UNCHANGED status
    /\ UNCHANGED <<order_book_data, merged_data, given, result, called, ofi_matrix, returns_matrix>>

\* the loop is over: the coefficient frame is returned
ReturnCoef ==
    /\ status = "running"
    /\ pending = <<>>
    /\ status' = "returned"
    /\ result' = cross_impact_coef
    /\ UNCHANGED <<order_book_data, merged_data, given, called, ofi_matrix, returns_matrix,
                   cross_impact_coef, pending, fits>>

-----------------------------------------------------------------------------
(* specification of contemporaneous_cross_impact: every instrument has a row
   at each timestamp from its first to MaxTicks, one of them possibly without
   a return and one possibly without an OFI; the table may repeat its first row *)

MaxTicks == 5

\* ofi_pca and log_return of the row of an instrument at a timestamp
OfiAt(sym, t) == IF sym = "A" THEN Num(t) ELSE Num(-t)

ReturnAt(sym, t) == IF sym = "A" THEN Ratio(t, 2) ELSE Ratio(-t, 3)

\* an instrument's pattern <<first, noReturn, noOfi>>: rows at first..MaxTicks
\* (none when first = MaxTicks + 1), NaN return at noReturn, NaN OFI at noOfi
Patterns == (1 .. (MaxTicks + 1)) \X (0 .. MaxTicks) \X {0, 2}

ImpactRow(sym, t, pat) ==
    [c \in {TsCol, SymbolCol, OfiPcaCol, LogReturnCol} |->
        CASE c = TsCol -> t
          [] c = SymbolCol -> sym
          [] c = OfiPcaCol -> (IF pat[3] = t THEN NaN ELSE OfiAt(sym, t))
          [] OTHER -> (IF pat[2] = t THEN NaN ELSE ReturnAt(sym, t))]

\* the rows of the two instruments in (ts_event, symbol) order
RECURSIVE ImpactRows(_, _, _)
ImpactRows(patA, patB, t) ==
    IF t > MaxTicks THEN <<>>
    ELSE (IF t >= patA[1] THEN <<ImpactRow("A", t, patA)>> ELSE <<>>)
         \o (IF t >= patB[1] THEN <<ImpactRow("B", t, patB)>> ELSE <<>>)
         \o ImpactRows(patA, patB, t + 1)

WithRepeat(rows, dup) == IF dup /\ rows # <<>> THEN Append(rows, rows[1]) ELSE rows

InitImpact ==
    /\ merged_data \in
          {Table({TsCol, SymbolCol, OfiPcaCol, LogReturnCol},
                 WithRepeat(ImpactRows(patA, patB, 1), dup), "datetime") :
              patA \in Patterns, patB \in Patterns, dup \in BOOLEAN}
    /\ order_book_data = NoResult
    /\ given = NoResult
    /\ result = NoResult
    /\ status = "idle"
    /\ called = <<>>
    /\ EstimatorIdle

NextImpact ==
    \/ PivotStep
    \/ FitTarget
    \/ ReturnCoef

SpecImpact == InitImpact /\ [][NextImpact]_vars

-----------------------------------------------------------------------------
(* claims about contemporaneous_cross_impact *)

ImpactCalled == called = <<"contemporaneous_cross_impact">>

SymbolsIn(t) == {t.rows[i][SymbolCol] : i \in 1 .. NRows(t)}

\* the number of rows of an instrument that carry a return
ReturnsOf(t, sym) ==
    Cardinality({i \in 1 .. NRows(t) :
                    t.rows[i][SymbolCol] = sym /\ ~IsNaN(t.rows[i][LogReturnCol])})

\* C8: a returned matrix has one row per distinct instrument of the returns
\* matrix and one column per distinct instrument of the OFI matrix, one
\* regression was fitted per target, and every cell holds a fitted coefficient
C8_CompleteMatrix ==
    (ImpactCalled /\ status = "returned") =>
        /\ result.index = returns_matrix.columns
        /\ result.columns = ofi_matrix.columns
        /\ Range(result.index) = SymbolsIn(merged_data)
        /\ Range(result.columns) = SymbolsIn(merged_data)
        /\ Len(result.index) = Cardinality(SymbolsIn(merged_data))
        /\ Len(result.columns) = Cardinality(SymbolsIn(merged_data))
        /\ Len(fits) = Len(result.index)
        /\ \A k \in 1 .. Len(fits) : fits[k].target = result.index[k]
        /\ \A t \in Range(result.index) : \A q \in Range(result.columns) :
              result.cells[t][q] = <<"coef", t, q>>

\* a two-by-two matrix was returned from a table with a missing OFI
C8_Witness ==
    /\ ImpactCalled
    /\ status = "returned"
    /\ Len(result.index) = 2
    /\ \E i \in 1 .. NRows(merged_data) : IsNaN(merged_data.rows[i][OfiPcaCol])

\* C9: when two rows share (ts_event, symbol) or some target's fit fails (it
\* has fewer returns than folds, for one none at all), the call raises and
\* returns no matrix, also when earlier targets' rows were already filled;
\* nothing is returned before the call ends
C9_AllOrNothing ==
    ImpactCalled =>
        /\ status # "returned" => result = NoResult
        /\ (status \in {"returned", "raised"}
            /\ \/ HasDuplicates(merged_data)
               \/ \E sym \in SymbolsIn(merged_data) : ReturnsOf(merged_data, sym) < Cv)
               => (status = "raised" /\ result = NoResult)
        /\ status = "raised"
               => \/ HasDuplicates(merged_data)
                  \/ \E sym \in SymbolsIn(merged_data) : ReturnsOf(merged_data, sym) < Cv

\* the call raised on the second target, which has no return at all, after
\* the first target's row was filled
C9_Witness ==
    /\ ImpactCalled
    /\ status = "raised"
    /\ Len(fits) = 2
    /\ \A q \in Range(cross_impact_coef.columns) :
          cross_impact_coef.cells[fits[1].target][q] # <<"empty">>
    /\ \E sym \in SymbolsIn(merged_data) : ReturnsOf(merged_data, sym) = 0

-----------------------------------------------------------------------------
(* claims about the aggregator's empty buckets *)

\* the buckets between an instrument's first and last bucket that hold none of its rows
EmptyBuckets(inp, sym) ==
    {b \in BucketStarts :
        /\ Members(inp, sym, b) = {}
        /\ \E lo, hi \in BucketStarts :
              /\ lo < b
              /\ b < hi
              /\ Members(inp, sym, lo) # {}
              /\ Members(inp, sym, hi) # {}}

RowsAt(out, sym, b) ==
    {k \in 1 .. NRows(out) : out.rows[k][SymbolCol] = sym /\ out.rows[k][TsCol] = b}

\* C11 as stated: every bucket of an instrument's resampled range without a
\* row of that instrument is an output row whose aggregates, prices and sizes
\* alike, are all null
C11_EmptyBucketsAllNull ==
    AggReturned =>
        \A sym \in Symbols : \A b \in EmptyBuckets(given, sym) :
            /\ Cardinality(RowsAt(result, sym, b)) = 1
            /\ \A k \in RowsAt(result, sym, b) :
                  \A c \in LastColumns(Levels) \cup SumColumns(Levels) :
                      IsMissing(c, result.rows[k][c])

\* C11 amended: every bucket between an instrument's own first and last
\* bucket without a row of that instrument is an output row whose prices and
\* action, side, price are null and whose sizes are 0; outside that range no
\* row is made for the instrument
C11_EmptyBucketsNullPricesZeroSizes ==
    AggReturned =>
        \A sym \in Symbols :
            /\ \A b \in EmptyBuckets(given, sym) :
                  /\ Cardinality(RowsAt(result, sym, b)) = 1
                  /\ \A k \in RowsAt(result, sym, b) :
                        /\ \A c \in LastColumns(Levels) : IsMissing(c, result.rows[k][c])
                        /\ \A c \in SumColumns(Levels) : result.rows[k][c] = Num(0)
            /\ \A b \in BucketStarts :
                  (Members(given, sym, b) = {} /\ b \notin EmptyBuckets(given, sym))
                      => RowsAt(result, sym, b) = {}

\* an instrument with rows in two buckets and an empty bucket between them
C11_Witness ==
    /\ AggReturned
    /\ \E sym \in Symbols : \E b \in EmptyBuckets(given, sym) : RowsAt(result, sym, b) # {}

-----------------------------------------------------------------------------
(* specification of the calculators and the aggregator on tables that lack
   columns of the full ladder schema, or none *)

SchemaRowPool ==
    {LadderRow(s, t, 1, 1, 2, 2, "A", "B", 1) : s \in Symbols, t \in Times}

\* the column sets tried: the full schema, the full schema less one column,
\* and the order-flow schema alone (no action, side, price)
SchemaVariants ==
    {FullColumns, FullColumns \ {ActionCol, SideCol, PriceCol}}
        \cup {FullColumns \ {c} : c \in FullColumns}

\* a table restricted to some of its columns
Restrict(tbl, cols) ==
    Table(cols, [i \in 1 .. NRows(tbl) |-> [c \in cols |-> tbl.rows[i][c]]], tbl.ts_dtype)

InitSchema ==
    /\ order_book_data \in
          {Restrict(Table(FullColumns, rows, "int"), cols) :
              rows \in SeqsUpTo(SchemaRowPool, MaxRows) \ {<<>>}, cols \in SchemaVariants}
    /\ merged_data = NoResult
    /\ given = NoResult
    /\ result = NoResult
    /\ status = "idle"
    /\ called = <<>>
    /\ EstimatorIdle

NextSchema ==
    \/ CalculateOrderFlows
    \/ CalculateLogReturns
    \/ AggregateOrderBookData

SpecSchema == InitSchema /\ [][NextSchema]_vars

\* the columns the order-flow calculator needs: symbol, ts_event and the
\* 4*levels ladder columns
FlowSchema ==
    {<<"symbol">>, <<"ts_event">>}
        \cup {<<n, l>> : n \in {"bid_px", "ask_px", "bid_sz", "ask_sz"}, l \in 0 .. (Levels - 1)}

\* the columns the returns calculator needs
ReturnSchema == {<<"symbol">>, <<"ts_event">>, <<"bid_px", 0>>, <<"ask_px", 0>>}

\* C12: calculate_order_flows and calculate_log_returns, given a table that
\* lacks a required column, raise before any computation: nothing is
\* returned and the caller's table is as it was, without a mid_price column
C12_SchemaErrorFirst ==
    /\ (called = <<"calculate_order_flows">> /\ ~(FlowSchema \subseteq given.cols))
           => /\ status = "raised"
              /\ result = NoResult
              /\ order_book_data = given
    /\ (called = <<"calculate_log_returns">> /\ ~(ReturnSchema \subseteq given.cols))
           => /\ status = "raised"
              /\ result = NoResult
              /\ order_book_data = given
              /\ MidPriceCol \notin order_book_data.cols

\* calculate_log_returns raised on a table that has both best prices and no symbol
C12_Witness ==
    /\ called = <<"calculate_log_returns">>
    /\ status = "raised"
    /\ {BidPx(0), AskPx(0)} \subseteq given.cols
    /\ SymbolCol \notin given.cols

\* the price and size columns of the ladder
LadderSchema ==
    {<<n, l>> : n \in {"bid_px", "ask_px", "bid_sz", "ask_sz"}, l \in 0 .. (Levels - 1)}

AggCalledFirst == called = <<"aggregate_order_book_data">>

\* C13: aggregate_order_book_data, given a table that lacks a required price
\* or size column, fails before any computation: the caller's table is then
\* exactly as it was before the call, its ts_event column included
C13_FailureLeavesTableAlone ==
    (AggCalledFirst /\ ~(LadderSchema \subseteq given.cols))
        => /\ status = "raised"
           /\ result = NoResult
           /\ order_book_data = given

\* C14 as stated: a table with the order-flow schema and none of action,
\* side, price is aggregated successfully
C14_AuxColumnsOptional ==
    (AggCalledFirst /\ FlowSchema \subseteq given.cols
        /\ given.cols \cap {<<"action">>, <<"side">>, <<"price">>} = {})
        => status = "returned"

\* C14 amended: action, side and price are required: a table with the
\* order-flow schema that lacks any of them makes the call raise and return
\* no table, and one that has all three is aggregated
C14_AuxColumnsRequired ==
    (AggCalledFirst /\ FlowSchema \subseteq given.cols)
        => IF {<<"action">>, <<"side">>, <<"price">>} \subseteq given.cols
           THEN status = "returned" /\ NRows(result) >= 1
           ELSE status = "raised" /\ result = NoResult

\* the aggregator raised on a two-row table with the order-flow schema and
\* none of action, side, price
C14_Witness ==
    /\ AggCalledFirst
    /\ status = "raised"
    /\ given.cols = FlowSchema
    /\ NRows(given) = 2

-----------------------------------------------------------------------------
(* specification of integrate_ofi_with_pca on flow tables with undefined and
   infinite cells, and on tables that lack a flow column *)

\* a flow table row: every flow cell is v, except that column bad (if any)
\* holds the cell x
PcaRow(v, bad, x) ==
    [c \in {SymbolCol, TsCol} \cup AllFlowColumns |->
        IF c = SymbolCol THEN "A"
        ELSE IF c = TsCol THEN 1
        ELSE IF c = bad THEN x
        ELSE Num(v)]

PcaRowPool ==
    {PcaRow(v, <<"none">>, NaN) : v \in {-1, 1}}
        \cup {PcaRow(v, c, x) : v \in {-1, 1}, c \in AllFlowColumns, x \in {NaN, PosInf}}

PcaSchemas ==
    {{SymbolCol, TsCol} \cup AllFlowColumns}
        \cup {({SymbolCol, TsCol} \cup AllFlowColumns) \ {c} : c \in AllFlowColumns}

InitPca ==
    /\ order_book_data \in
          {Restrict(Table({SymbolCol, TsCol} \cup AllFlowColumns, rows, "int"), cols) :
              rows \in SeqsUpTo(PcaRowPool, MaxRows), cols \in PcaSchemas}
    /\ merged_data = NoResult
    /\ given = NoResult
    /\ result = NoResult
    /\ status = "idle"
    /\ called = <<>>
    /\ EstimatorIdle

NextPca == IntegrateOfiWithPca

SpecPca == InitPca /\ [][NextPca]_vars

PcaCalled == called = <<"integrate_ofi_with_pca">>

\* the table has every flow column, at least one row and only finite flows
Fittable(t) ==
    /\ AllFlowColumns \subseteq t.cols
    /\ NRows(t) >= 1
    /\ \A i \in 1 .. NRows(t) : \A c \in AllFlowColumns : IsFinite(t.rows[i][c])

\* C15: on success integrate_ofi_with_pca returns the table it was given, with
\* the same number of rows, exactly one added column (ofi_pca) and every
\* earlier column unchanged; when it fails (a flow column is absent or the fit
\* rejects the data) the caller's table has no ofi_pca column added
C15_OneColumnAdded ==
    PcaCalled =>
        IF Fittable(given)
        THEN /\ status = "returned"
             /\ result = order_book_data
             /\ NRows(result) = NRows(given)
             /\ result.cols \ given.cols = {OfiPcaCol}
             /\ given.cols \subseteq result.cols
             /\ \A i \in 1 .. NRows(given) : \A c \in given.cols :
                   result.rows[i][c] = given.rows[i][c]
        ELSE /\ status = "raised"
             /\ result = NoResult
             /\ order_book_data = given
             /\ OfiPcaCol \notin order_book_data.cols

\* the reducer has succeeded on a two-row table
C15_Witness ==
    /\ PcaCalled
    /\ status = "returned"
    /\ NRows(given) = 2

\* the fit has rejected a two-row table that has every flow column
C15_WitnessRejected ==
    /\ PcaCalled
    /\ status = "raised"
    /\ AllFlowColumns \subseteq given.cols
    /\ NRows(given) = 2

-----------------------------------------------------------------------------
(* claims about the regression samples of contemporaneous_cross_impact *)

\* the rows of an instrument at a timestamp
RowsOfAt(t, sym, ts) ==
    {i \in 1 .. NRows(t) : t.rows[i][SymbolCol] = sym /\ t.rows[i][TsCol] = ts}

\* the timestamps at which an instrument's log_return is present
ReturnTimes(t, sym) ==
    {ts \in 1 .. MaxTicks : \E i \in RowsOfAt(t, sym, ts) : ~IsNaN(t.rows[i][LogReturnCol])}

\* the table with the log_return of every instrument but sym blanked
OthersBlanked(t, sym) ==
    Table(t.cols,
          [i \in 1 .. NRows(t) |->
              IF t.rows[i][SymbolCol] = sym THEN t.rows[i]
              ELSE [t.rows[i] EXCEPT ![LogReturnCol] = NaN]],
          t.ts_dtype)

\* C16: the sample of target i has exactly one observation per timestamp at
\* which i's log_return is present, in ascending time, and none for the other
\* timestamps; the predictor of instrument j in an observation is j's ofi_pca
\* at that timestamp, or zero when j has no row or a missing ofi_pca there;
\* and the sample is the one built when no other target has any return
C16_SamplePerTarget ==
    ImpactCalled =>
        \A k \in 1 .. Len(fits) :
            LET f == fits[k]
                i == f.target
            IN  /\ Range(f.index) = ReturnTimes(merged_data, i)
                /\ Len(f.index) = Cardinality(ReturnTimes(merged_data, i))
                /\ \A n \in 1 .. (Len(f.index) - 1) : f.index[n] < f.index[n + 1]
                /\ Len(f.X) = Len(f.index)
                /\ \A n \in 1 .. Len(f.X) :
                      /\ DOMAIN f.X[n] = SymbolsIn(merged_data)
                      /\ \A j \in SymbolsIn(merged_data) :
                            LET at == RowsOfAt(merged_data, j, f.index[n])
                            IN  IF \E r \in at : ~IsNaN(merged_data.rows[r][OfiPcaCol])
                                THEN \A r \in at : f.X[n][j] = merged_data.rows[r][OfiPcaCol]
                                ELSE f.X[n][j] = Num(0)
                /\ f.index = YIndex(Pivot(OthersBlanked(merged_data, i), LogReturnCol), i)
                /\ f.X = XRows(Pivot(OthersBlanked(merged_data, i), OfiPcaCol), f.index)

\* two samples were built: the first target's holds a zero for an instrument
\* with no row at that timestamp, the second target's has fewer observations
\* than there are timestamps and holds a zero for a missing ofi_pca
C16_Witness ==
    /\ ImpactCalled
    /\ Len(fits) = 2
    /\ Len(fits[1].index) = MaxTicks
    /\ \E n \in 1 .. Len(fits[1].X) :
          /\ fits[1].X[n][fits[2].target] = Num(0)
          /\ RowsOfAt(merged_data, fits[2].target, fits[1].index[n]) = {}
    /\ Len(fits[2].index) >= 1
    /\ Len(fits[2].index) < Len(returns_matrix.index)
    /\ \E n \in 1 .. Len(fits[2].X) :
          /\ fits[2].X[n][fits[1].target] = Num(0)
          /\ \E r \in RowsOfAt(merged_data, fits[1].target, fits[2].index[n]) :
                IsNaN(merged_data.rows[r][OfiPcaCol])

-----------------------------------------------------------------------------
(* specification of calculate_order_flows on tables of up to MaxOrderRows
   rows given in any order *)

MaxOrderRows == 3

OrderTimes == {1, 2, 3}

OrderQuotes == {<<1, 1, 2, 1>>, <<2, 2, 3, 1>>}

OrderRowPool ==
    {LadderRow(s, t, q[1], q[2], q[3], q[4], "A", "B", 1) :
        s \in Symbols, t \in OrderTimes, q \in OrderQuotes}

InitOrder ==
    /\ order_book_data \in
          {Table(FullColumns, rows, "int") : rows \in SeqsUpTo(OrderRowPool, MaxOrderRows)}
    /\ merged_data = NoResult
    /\ given = NoResult
    /\ result = NoResult
    /\ status = "idle"
    /\ called = <<>>
    /\ EstimatorIdle

NextOrder == CalculateOrderFlows

SpecOrder == InitOrder /\ [][NextOrder]_vars

\* no two rows of an instrument share a timestamp
DistinctTimes(t) ==
    \A i, j \in 1 .. NRows(t) : i # j => KeyOf(t.rows[i]) # KeyOf(t.rows[j])

\* the rows of one instrument, in the order given
OnlySymbol(t, sym) ==
    Table(t.cols, SelectSeq(t.rows, LAMBDA r : r[SymbolCol] = sym), t.ts_dtype)

\* every table the call may return for the rows of t
FlowOutcomes(t) ==
    {calculate_order_flows(t, Levels, p).table : p \in FlowSortOrders(t, Levels)}

\* the row of instrument sym at timestamp ts in table t
RowAt(t, sym, ts) ==
    t.rows[CHOOSE i \in 1 .. NRows(t) : KeyOf(t.rows[i]) = <<ts, sym>>]

\* C17: for an input whose timestamps are distinct within each instrument,
\* every permutation of the input rows yields the same row, flows included,
\* for every (instrument, timestamp); a row's predecessor is the same
\* instrument's row with the next-smaller timestamp and never a row of another
\* instrument (its flows are those of the instrument's rows taken alone); and
\* the output rows of each instrument are in ascending event time
C17_RowOrderIndependent ==
    (FlowsReturned /\ DistinctTimes(given)) =>
        /\ NRows(result) = NRows(given)
        /\ \A q \in Perms(NRows(given)) :
              \A out \in FlowOutcomes(Table(given.cols, Take(given.rows, q), given.ts_dtype)) :
                  \A i \in 1 .. NRows(result) :
                      RowAt(out, result.rows[i][SymbolCol], result.rows[i][TsCol]) = result.rows[i]
        /\ \A i \in 1 .. NRows(result) :
              LET sym == result.rows[i][SymbolCol]
                  earlier == {k \in 1 .. NRows(given) :
                                 /\ given.rows[k][SymbolCol] = sym
                                 /\ given.rows[k][TsCol] < result.rows[i][TsCol]}
              IN  /\ HasPredecessor(result, i) <=> earlier # {}
                  /\ HasPredecessor(result, i) =>
                        \A k \in earlier : given.rows[k][TsCol] <= result.rows[i - 1][TsCol]
                  /\ \A alone \in FlowOutcomes(OnlySymbol(given, sym)) :
                        RowAt(alone, sym, result.rows[i][TsCol]) = result.rows[i]
        /\ \A i, j \in 1 .. NRows(result) :
              (i < j /\ result.rows[i][SymbolCol] = result.rows[j][SymbolCol])
                  => result.rows[i][TsCol] < result.rows[j][TsCol]

\* flows were returned for three rows given out of order and interleaved: an
\* instrument's later row, a row of the other instrument, then its earlier row
C17_Witness ==
    /\ FlowsReturned
    /\ DistinctTimes(given)
    /\ NRows(given) = 3
    /\ given.rows[1][SymbolCol] = given.rows[3][SymbolCol]
    /\ given.rows[2][SymbolCol] # given.rows[1][SymbolCol]
    /\ given.rows[3][TsCol] < given.rows[1][TsCol]
    /\ given.rows[2][TsCol] < given.rows[1][TsCol]

====
